---------------------------- MODULE Spec2Model ----------------------------
(***************************************************************************)
(* Session state machine and round engine of the Cyber Siege server        *)
(* (src/socket/gameHandler.js): the in-memory store `games`, the           *)
(* per-connection closure state, the Socket.IO event handlers, the         *)
(* idle-deletion timers and the periodic sweep.                            *)
(*                                                                         *)
(* Conventions:                                                            *)
(*  - JavaScript null and undefined are both falsy and are never told      *)
(*    apart by the handlers; both are NULL here (NullTheme for theme ids,  *)
(*    which are numbers in the model).                                     *)
(*  - Date.now() values are the opaque token Stamp; durations derived from *)
(*    the wall clock (responseTime, timestamp) and display-only theme      *)
(*    metadata (titulo) are not part of the records.                       *)
(*  - The closure variable currentRole is written by join_game and         *)
(*    start_game and read only for the payload of player_disconnected; it  *)
(*    is left out, and so is that payload field.                           *)
(*  - Room membership is state of the transport (socket.join, socket.leave  *)
(*    and the leave on disconnect); a broadcast is recorded by the room it *)
(*    is addressed to.                                                     *)
(*  - Every handler is one action, except join_game, whose body is split   *)
(*    at its `await socket.join(sessionId)`: JoinGame runs up to the       *)
(*    await, JoinGameResume runs the continuation on the record object it  *)
(*    captured before the await.                                           *)
(***************************************************************************)
EXTENDS Integers, Sequences, FiniteSets, TLC

VARIABLES
    games,    \* the Map `games`: session key -> session record
    sock,     \* per connection: alive, currentSessionId
    pending,  \* join_game calls suspended at their await
    timers,   \* pending idle-deletion timeouts, in scheduling order
    out,      \* the notifications emitted by the last handler
    env,      \* what the clients may still do, and what is observed
    calc      \* harness for the pure function calculateScore

vars == <<games, sock, pending, timers, out, env, calc>>

-----------------------------------------------------------------------------
(* Values *)

NULL == "null"
NullTheme == 0
Stamp == "ts"

LOBBY == "LOBBY"
READY == "READY"
ATTACKING == "ATTACKING"
DEFENDED == "DEFENDED"
BREACHED == "BREACHED"
THEME_COMPLETED == "THEME_COMPLETED"
GAME_FINISHED == "GAME_FINISHED"

GameStatus ==
    {LOBBY, READY, ATTACKING, DEFENDED, BREACHED, THEME_COMPLETED, GAME_FINISHED}

Roles == {"attacker", "defender"}

\* Program constants
TOTAL_THEMES == 11
DefaultMaxTime == 30
BreachAward == 150
TimeoutAward == 200
RoundsPerTheme == 3

\* Bounds of the model
NumThemes == 2        \* theme ids offered by clients: 1..NumThemes
MaxFuel == 2          \* Spec: session-level events per run
MaxHistory == 1       \* Spec: rounds resolved per run
MaxRoundNumber == 2   \* Spec: cap of the round counter
MaxPending == 1       \* join_game calls suspended at the same time
MaxAwaitSteps == 1    \* handlers that run while a join_game is suspended
MaxStreakIn == 3      \* calculateScore harness: streak in 0..MaxStreakIn
MaxTimeIn == 30       \* calculateScore harness: timeRemaining in 0..MaxTimeIn
FinalFuel == 3        \* SpecFinal: session-level events per run
FinalHistory == 3     \* SpecFinal: rounds resolved per run
FinalRoundNumber == 6 \* SpecFinal: cap of the round counter
MatchFuel == 3        \* SpecMatch: session-level events per run
MatchHistory == 1     \* SpecMatch: rounds resolved per run
MatchRoundNumber == 3 \* SpecMatch: cap of the round counter
LongFuel == 3         \* SpecLong: session-level events per run
LongHistory == 1      \* SpecLong: rounds resolved per run
LongRoundNumber == 2  \* SpecLong: cap of the round counter
ObservedRoundNumber == 1 \* SpecObserved: cap of the round counter
IdleFuel == 4         \* SpecIdle: session-level events per run

\* Environment
Sessions == {"S1"}
Sockets == {"s1", "s2", "s3"}
UserIds == {"ana", "7"}

\* The stable identity a connection presents: s3 is a second connection
\* of the user behind s1.
UserOf(s) == IF s = "s2" THEN "7" ELSE "ana"

ThemeIds == 1..NumThemes

\* theme.tempo of the content catalog; theme 2 carries no tempo
Tempo(id) == IF id % 3 = 1 THEN 30 ELSE IF id % 3 = 2 THEN 0 ELSE 20

Theme(id) == [id |-> id, tempo |-> Tempo(id)]
NoThemeObj == [id |-> NullTheme, tempo |-> 0]

AttackTool == "ddos"
DefenseTool == "firewall"
TimeRemainingIn == {20}

\* calculateScore harness: the time budgets of the calls
BudgetIn == {20, DefaultMaxTime, 80}

\* SpecFinal: the host has joined once with each of themes 1..PlayedBefore;
\* the clients then offer the two themes that are left
PlayedBefore == TOTAL_THEMES - 2
FinalThemes == {TOTAL_THEMES - 1, TOTAL_THEMES}
FinalSockets == {"s1", "s2"}


-----------------------------------------------------------------------------
(* Records *)

EmptySlot == [socketId |-> NULL, userId |-> NULL, connected |-> FALSE]

ClearedRound ==
    [attackerTool |-> NULL, defenderTool |-> NULL,
     startTime |-> NULL, endTime |-> NULL]

\* themeRoundCount of a fresh record
InitialThemeRoundCount == 0

createInitialState(sessionId) ==
    [sessionId |-> sessionId,
     status |-> LOBBY,
     activeThemeId |-> NullTheme,
     activeTheme |-> NoThemeObj,
     attacker |-> EmptySlot,
     defender |-> EmptySlot,
     currentRound |-> ClearedRound,
     attackerScore |-> 0,
     defenderScore |-> 0,
     roundNumber |-> 0,
     totalRounds |-> 0,
     streak |-> 0,
     playedThemes |-> <<>>,
     themeRoundCount |-> InitialThemeRoundCount,
     history |-> <<>>,
     themeWinnerUserId |-> NULL,
     globalWinnerUserId |-> NULL,
     finalScores |-> <<>>]

toClientState(game) ==
    [sessionId |-> game.sessionId,
     gameStatus |-> game.status,
     activeThemeId |-> game.activeThemeId,
     activeTheme |-> game.activeTheme,
     attackerTool |-> game.currentRound.attackerTool,
     defenderTool |-> game.currentRound.defenderTool,
     startTime |-> game.currentRound.startTime,
     endTime |-> game.currentRound.endTime,
     attackerScore |-> game.attackerScore,
     defenderScore |-> game.defenderScore,
     roundNumber |-> game.roundNumber,
     totalRounds |-> game.totalRounds,
     streak |-> game.streak,
     history |-> game.history,
     players |->
        [attacker |-> [id |-> game.attacker.socketId,
                       connected |-> game.attacker.connected],
         defender |-> [id |-> game.defender.socketId,
                       connected |-> game.defender.connected]],
     playedThemes |-> game.playedThemes,
     themeRoundCount |-> game.themeRoundCount]

Includes(seq, x) == \E i \in DOMAIN seq : seq[i] = x

\* Rounding to the nearest integer of the exact quotient num / den (>= 0),
\* a half rounding up
RoundHalfUp(num, den) == (2 * num + den) \div (2 * den)

\* The pairs (timeRemaining, maxTime), for maxTime in {20, 30, 80} and
\* timeRemaining in 0..120, at which the IEEE-754 double
\* (timeRemaining / maxTime) * 200 falls just below the half-integer that
\* the exact quotient equals (e.g. (23 / 80) * 200 = 57.49999999999999).
FloatBelowHalf == {<<23, 80>>, <<41, 80>>, <<51, 80>>, <<87, 80>>, <<97, 80>>}

\* Math.round((timeRemaining / maxTime) * 200), evaluated in doubles
TimeBonus(timeRemaining, maxTime) ==
    IF <<timeRemaining, maxTime>> \in FloatBelowHalf
    THEN RoundHalfUp(timeRemaining * 200, maxTime) - 1
    ELSE RoundHalfUp(timeRemaining * 200, maxTime)

calculateScore(timeRemaining, maxTime, correct, streak) ==
    IF ~correct THEN 0
    ELSE LET base == 100
             timeBonus == TimeBonus(timeRemaining, maxTime)
             streakBonus == streak * 50
         IN  base + timeBonus + streakBonus

\* game.activeTheme?.tempo || dflt
ThemeTempoOr(game, dflt) ==
    IF game.activeTheme.tempo # 0 THEN game.activeTheme.tempo ELSE dflt

\* String(x) of a theme id: null gives "null", a number its decimal form
ThemeStr(id) == IF id = NullTheme THEN "null" ELSE ToString(id)

-----------------------------------------------------------------------------
(* join_game *)

\* The role join_game settles on: the requested one, or the automatic
\* assignment; "wait" and "full" are the two rejections.
JoinFinalRole(game, requestedRole, userId) ==
    IF requestedRole # NULL THEN requestedRole
    ELSE IF game.attacker.connected /\ ~game.defender.connected THEN "defender"
    ELSE IF ~game.attacker.connected /\ game.defender.connected THEN "attacker"
    ELSE IF ~game.attacker.connected /\ ~game.defender.connected THEN "wait"
    ELSE IF userId # NULL /\ game.attacker.userId = userId THEN "attacker"
    ELSE IF userId # NULL /\ game.defender.userId = userId THEN "defender"
    ELSE "full"

\* The slot assignment made before the await
JoinAssign(game, finalRole, socketId, userId) ==
    LET slot == [socketId |-> socketId, userId |-> userId, connected |-> TRUE]
    IN  IF finalRole = "attacker" THEN [game EXCEPT !.attacker = slot]
        ELSE IF finalRole = "defender" THEN [game EXCEPT !.defender = slot]
        ELSE game

\* The theme update of the continuation (themeId = NullTheme: no data.theme)
JoinTheme(game, themeId) ==
    IF themeId = NullTheme THEN game
    ELSE IF ThemeStr(game.activeThemeId) # ThemeStr(themeId)
         THEN [game EXCEPT
                 !.activeTheme = Theme(themeId),
                 !.activeThemeId = themeId,
                 !.themeRoundCount = 1,
                 !.playedThemes =
                     IF Includes(game.playedThemes, themeId)
                     THEN game.playedThemes
                     ELSE Append(game.playedThemes, themeId)]
         ELSE game

\* READY when both slots are connected, else LOBBY
LobbyOrReady(game) ==
    IF game.attacker.connected /\ game.defender.connected THEN READY ELSE LOBBY

\* Everything join_game does to the record after the await
JoinFinish(game, themeId) ==
    LET g1 == JoinTheme(game, themeId)
        g2 == IF g1.status # ATTACKING
              THEN [g1 EXCEPT !.currentRound = ClearedRound]
              ELSE g1
    IN  [g2 EXCEPT !.status = LobbyOrReady(g2)]

-----------------------------------------------------------------------------
(* start_game *)

\* The record start_game inserts when the session has none
StartCreate(sessionId, role, socketId, userId) ==
    LET game == createInitialState(sessionId)
    IN  IF role = "attacker"
        THEN [game EXCEPT !.attacker =
                 [socketId |-> socketId, userId |-> NULL, connected |-> TRUE]]
        ELSE IF role = "defender"
        THEN [game EXCEPT !.defender =
                 [socketId |-> socketId, userId |-> userId, connected |-> TRUE]]
        ELSE game

\* StartOtherPlayer, were it to go by the requested role alone
StartOtherPlayerByRole(game, role, myId, userId) ==
    IF role = "attacker" THEN game.defender ELSE game.attacker

\* The slot start_game takes for "the other player"
StartOtherPlayer(game, role, myId, userId) ==
    IF game.attacker.socketId = myId
       \/ (userId # NULL /\ game.attacker.userId = userId)
    THEN game.defender
    ELSE IF game.defender.socketId = myId
            \/ (userId # NULL /\ game.defender.userId = userId)
    THEN game.attacker
    ELSE IF role = "attacker" THEN game.defender ELSE game.attacker

\* The role management of start_game (role # NULL)
StartRoles(game, role, myId, userId) ==
    LET otherPlayer == StartOtherPlayer(game, role, myId, userId)
        me == [socketId |-> myId, userId |-> userId, connected |-> TRUE]
        other == IF otherPlayer.socketId # NULL \/ otherPlayer.userId # NULL
                 THEN otherPlayer
                 ELSE EmptySlot
    IN  IF role = "attacker"
        THEN [game EXCEPT !.attacker = me, !.defender = other]
        ELSE [game EXCEPT !.defender = me, !.attacker = other]

\* StartTheme, were it to restart the count only for another theme, as
\* join_game does
StartThemeKeepCount(game, themeId) ==
    LET g1 == [game EXCEPT !.activeThemeId = themeId,
                           !.activeTheme = Theme(themeId)]
    IN  [g1 EXCEPT !.status = LobbyOrReady(g1),
                   !.roundNumber = 0,
                   !.themeRoundCount =
                       IF game.activeThemeId = themeId THEN @ ELSE 1,
                   !.currentRound = ClearedRound]

\* The theme, status and counter updates that end start_game
StartTheme(game, themeId) ==
    LET g1 == [game EXCEPT !.activeThemeId = themeId,
                           !.activeTheme = Theme(themeId)]
    IN  [g1 EXCEPT !.status = LobbyOrReady(g1),
                   !.roundNumber = 0,
                   !.themeRoundCount = 1,
                   !.currentRound = ClearedRound]

StartApply(game, role, myId, userId, themeId) ==
    StartTheme(IF role # NULL THEN StartRoles(game, role, myId, userId)
               ELSE game,
               themeId)

-----------------------------------------------------------------------------
(* execute_attack, execute_defense, time_expired *)

AttackApply(game, toolId) ==
    [game EXCEPT
        !.currentRound = [attackerTool |-> toolId, defenderTool |-> NULL,
                          startTime |-> Stamp, endTime |-> NULL],
        !.status = ATTACKING,
        !.roundNumber = game.roundNumber + 1]

DefenseScore(game, isCorrect, timeRemaining) ==
    calculateScore(timeRemaining, ThemeTempoOr(game, DefaultMaxTime),
                   isCorrect, game.streak)

DefenseResult(game, toolId, isCorrect, timeRemaining) ==
    [round |-> game.roundNumber,
     themeId |-> game.activeThemeId,
     attackerTool |-> game.currentRound.attackerTool,
     defenderTool |-> toolId,
     isCorrect |-> isCorrect,
     scoreGained |-> DefenseScore(game, isCorrect, timeRemaining),
     winner |-> IF isCorrect THEN "defender" ELSE "attacker",
     timedOut |-> FALSE,
     winnerSocketId |-> IF isCorrect THEN game.defender.socketId
                        ELSE game.attacker.socketId,
     winnerUserId |-> IF isCorrect THEN game.defender.userId
                      ELSE game.attacker.userId]

\* DefenseApply, were it to score with the streak the defend leaves
DefenseApplyStreakFirst(game, toolId, isCorrect, timeRemaining) ==
    LET g1 == [game EXCEPT !.streak = IF isCorrect THEN @ + 1 ELSE 0]
    IN  [game EXCEPT
            !.currentRound = [@ EXCEPT !.defenderTool = toolId, !.endTime = Stamp],
            !.history = Append(@, DefenseResult(g1, toolId, isCorrect, timeRemaining)),
            !.status = IF isCorrect THEN DEFENDED ELSE BREACHED,
            !.defenderScore = @ + DefenseScore(g1, isCorrect, timeRemaining),
            !.attackerScore = @ + (IF isCorrect THEN 0 ELSE BreachAward),
            !.streak = g1.streak,
            !.totalRounds = @ + 1]

\* DefenseApply, were a wrong defense to cost the defender what it earns the
\* attacker
DefenseApplyPenalty(game, toolId, isCorrect, timeRemaining) ==
    [game EXCEPT
        !.currentRound = [@ EXCEPT !.defenderTool = toolId, !.endTime = Stamp],
        !.history = Append(@, DefenseResult(game, toolId, isCorrect, timeRemaining)),
        !.status = IF isCorrect THEN DEFENDED ELSE BREACHED,
        !.defenderScore = IF isCorrect
                          THEN @ + DefenseScore(game, isCorrect, timeRemaining)
                          ELSE @ - BreachAward,
        !.attackerScore = @ + (IF isCorrect THEN 0 ELSE BreachAward),
        !.streak = IF isCorrect THEN @ + 1 ELSE 0,
        !.totalRounds = @ + 1]

DefenseApply(game, toolId, isCorrect, timeRemaining) ==
    [game EXCEPT
        !.currentRound = [@ EXCEPT !.defenderTool = toolId, !.endTime = Stamp],
        !.history = Append(@, DefenseResult(game, toolId, isCorrect, timeRemaining)),
        !.status = IF isCorrect THEN DEFENDED ELSE BREACHED,
        !.defenderScore = @ + DefenseScore(game, isCorrect, timeRemaining),
        !.attackerScore = @ + (IF isCorrect THEN 0 ELSE BreachAward),
        !.streak = IF isCorrect THEN @ + 1 ELSE 0,
        !.totalRounds = @ + 1]

TimeoutResult(game) ==
    [round |-> game.roundNumber,
     themeId |-> game.activeThemeId,
     attackerTool |-> game.currentRound.attackerTool,
     defenderTool |-> NULL,
     isCorrect |-> FALSE,
     scoreGained |-> 0,
     winner |-> "attacker",
     timedOut |-> TRUE,
     winnerSocketId |-> game.attacker.socketId,
     winnerUserId |-> game.attacker.userId]

\* TimeoutApply, were it to leave totalRounds alone
TimeoutApplyUncounted(game) ==
    [game EXCEPT
        !.currentRound = [@ EXCEPT !.endTime = Stamp],
        !.history = Append(@, TimeoutResult(game)),
        !.status = BREACHED,
        !.attackerScore = @ + TimeoutAward,
        !.streak = 0]

\* TimeoutApply, were it to award what a breach awards and keep the streak
TimeoutApplyAsBreach(game) ==
    [game EXCEPT
        !.currentRound = [@ EXCEPT !.endTime = Stamp],
        !.history = Append(@, TimeoutResult(game)),
        !.status = BREACHED,
        !.attackerScore = @ + BreachAward,
        !.totalRounds = @ + 1]

TimeoutApply(game) ==
    [game EXCEPT
        !.currentRound = [@ EXCEPT !.endTime = Stamp],
        !.history = Append(@, TimeoutResult(game)),
        !.status = BREACHED,
        !.attackerScore = @ + TimeoutAward,
        !.streak = 0,
        !.totalRounds = @ + 1]

-----------------------------------------------------------------------------
(* choose_next_role and handleNextRound *)

\* The role of the slot whose socketId is the caller's, attacker first
CallerRole(game, socketId) ==
    IF game.attacker.socketId = socketId THEN "attacker"
    ELSE IF game.defender.socketId = socketId THEN "defender"
    ELSE NULL

\* The two slots as choose_next_role rebuilds them: socket ids only
ChooseRoles(game, socketId, role) ==
    LET loserSocketId == IF game.attacker.socketId = socketId
                         THEN game.defender.socketId
                         ELSE game.attacker.socketId
        winnerSlot == [socketId |-> socketId, userId |-> NULL, connected |-> TRUE]
        loserSlot == [socketId |-> loserSocketId, userId |-> NULL, connected |-> TRUE]
    IN  IF role = "attacker"
        THEN [game EXCEPT !.attacker = winnerSlot, !.defender = loserSlot]
        ELSE [game EXCEPT !.attacker = loserSlot, !.defender = winnerSlot]

\* A property key that is a canonical array index: Object.entries lists
\* such keys first, in ascending numeric order, before the other keys in
\* insertion order.
IsIndexKey(k) == k = "7"
IndexValue(k) == IF k = "7" THEN 7 ELSE -1

RECURSIVE SumScores(_, _)
\* Sum of (scoreGained || 0) over the rounds of `rounds` won by `userId`
SumScores(rounds, userId) ==
    IF rounds = <<>> THEN 0
    ELSE (IF Head(rounds).winnerUserId = userId
          THEN Head(rounds).scoreGained ELSE 0)
         + SumScores(Tail(rounds), userId)

RECURSIVE InsertionOrder(_)
\* The winnerUserId keys of `rounds` in the order of their first insertion
InsertionOrder(rounds) ==
    IF rounds = <<>> THEN <<>>
    ELSE LET rest == InsertionOrder(SubSeq(rounds, 1, Len(rounds) - 1))
             k == rounds[Len(rounds)].winnerUserId
         IN  IF Includes(rest, k) THEN rest ELSE Append(rest, k)

RECURSIVE AscendingKeys(_)
\* The index keys of a set in ascending numeric order
AscendingKeys(keys) ==
    IF keys = {} THEN <<>>
    ELSE LET m == CHOOSE k \in keys :
                      \A o \in keys : IndexValue(k) <= IndexValue(o)
         IN  <<m>> \o AscendingKeys(keys \ {m})

\* The key order of Object.entries for an object filled in `insertion` order
EntriesOrder(insertion) ==
    AscendingKeys({insertion[i] : i \in {j \in DOMAIN insertion :
                                             IsIndexKey(insertion[j])}})
    \o SelectSeq(insertion, LAMBDA k : ~IsIndexKey(k))

RECURSIVE BestOf(_, _, _, _)
\* The forEach over Object.entries(scores) keeping the first strict maximum
BestOf(order, rounds, bestScore, bestUserId) ==
    IF order = <<>> THEN bestUserId
    ELSE LET score == SumScores(rounds, Head(order))
         IN  IF score > bestScore
             THEN BestOf(Tail(order), rounds, score, Head(order))
             ELSE BestOf(Tail(order), rounds, bestScore, bestUserId)

\* The history entries that count for the theme winner and the global winner
ThemeRounds(game) ==
    SelectSeq(game.history,
              LAMBDA r : r.themeId = game.activeThemeId /\ r.winnerUserId # NULL)
GlobalRounds(game) ==
    SelectSeq(game.history, LAMBDA r : r.winnerUserId # NULL)

BestUser(rounds) == BestOf(EntriesOrder(InsertionOrder(rounds)), rounds, -1, NULL)

ThemeWinner(game) ==
    LET bestUserId == BestUser(ThemeRounds(game))
    IN  IF bestUserId # NULL THEN bestUserId
        ELSE IF game.history = <<>> THEN NULL
        ELSE game.history[Len(game.history)].winnerUserId

GlobalScores(game) ==
    LET rounds == GlobalRounds(game)
    IN  [u \in {rounds[i].winnerUserId : i \in DOMAIN rounds}
            |-> SumScores(rounds, u)]

\* Number(game.themeRoundCount) || 1
NormalCount(n) == IF n = 0 THEN 1 ELSE n

\* CompleteTheme, were it to list the theme as played without looking for it
\* in playedThemes first
CompleteThemeUnchecked(game) ==
    LET g1 == [game EXCEPT
                 !.status = THEME_COMPLETED,
                 !.themeWinnerUserId = ThemeWinner(game),
                 !.playedThemes = Append(game.playedThemes, game.activeThemeId)]
    IN  IF Len(g1.playedThemes) >= TOTAL_THEMES
        THEN [g1 EXCEPT
                 !.status = GAME_FINISHED,
                 !.globalWinnerUserId = BestUser(GlobalRounds(g1)),
                 !.finalScores = GlobalScores(g1)]
        ELSE g1

\* The branch of handleNextRound that ends the theme
CompleteTheme(game) ==
    LET g1 == [game EXCEPT
                 !.status = THEME_COMPLETED,
                 !.themeWinnerUserId = ThemeWinner(game),
                 !.playedThemes =
                     IF game.activeThemeId # NullTheme
                        /\ ~Includes(game.playedThemes, game.activeThemeId)
                     THEN Append(game.playedThemes, game.activeThemeId)
                     ELSE game.playedThemes]
    IN  IF Len(g1.playedThemes) >= TOTAL_THEMES
        THEN [g1 EXCEPT
                 !.status = GAME_FINISHED,
                 !.globalWinnerUserId = BestUser(GlobalRounds(g1)),
                 !.finalScores = GlobalScores(g1)]
        ELSE g1

\* The branch of handleNextRound that opens the next round of the theme
OpenNextRound(game) ==
    [game EXCEPT
        !.roundNumber = @ + 1,
        !.themeRoundCount = @ + 1,
        !.status = ATTACKING,
        !.themeWinnerUserId = NULL,
        !.currentRound = ClearedRound]

handleNextRound(game) ==
    LET g0 == [game EXCEPT !.themeRoundCount = NormalCount(@)]
    IN  IF g0.themeRoundCount >= RoundsPerTheme
        THEN CompleteTheme(g0)
        ELSE OpenNextRound(g0)

-----------------------------------------------------------------------------
(* replay_game, disconnect *)

\* ReplayApply, were it to clear the scores as well
ReplayApplyScores(game) ==
    [game EXCEPT
        !.status = READY,
        !.currentRound = ClearedRound,
        !.roundNumber = 0,
        !.streak = 0,
        !.attackerScore = 0,
        !.defenderScore = 0]

\* ReplayApply, were it to start the history over
ReplayApplyNoHistory(game) ==
    [game EXCEPT
        !.status = READY,
        !.currentRound = ClearedRound,
        !.roundNumber = 0,
        !.streak = 0,
        !.history = <<>>]

ReplayApply(game) ==
    [game EXCEPT
        !.status = READY,
        !.currentRound = ClearedRound,
        !.roundNumber = 0,
        !.streak = 0]

DisconnectApply(game, socketId) ==
    [game EXCEPT
        !.attacker.connected =
            IF game.attacker.socketId = socketId THEN FALSE ELSE @,
        !.defender.connected =
            IF game.defender.socketId = socketId THEN FALSE ELSE @]

-----------------------------------------------------------------------------
(* The store, the notifications and the suspended joins *)

Has(f, k) == k \in DOMAIN f
Put(f, k, v) == [x \in DOMAIN f \cup {k} |-> IF x = k THEN v ELSE f[x]]
Remove(f, k) == [x \in DOMAIN f \ {k} |-> f[x]]

getOrCreateGame(sessionId) ==
    IF Has(games, sessionId) THEN games[sessionId]
    ELSE createInitialState(sessionId)

\* socket.emit(event, payload)
ToSocket(socketId, event, payload) ==
    [to |-> socketId, event |-> event, payload |-> payload]
\* io.to(sessionId).emit(event, payload)
ToRoom(sessionId, event, payload) ==
    [to |-> sessionId, event |-> event, payload |-> payload]

ErrorTo(socketId, message) == <<ToSocket(socketId, "error", <<message>>)>>
StateTo(sessionId, game) == ToRoom(sessionId, "game_state", <<toClientState(game)>>)

\* The notifications of a handler are recorded where they are observed
Emit(msgs) == out' = IF env.observe THEN msgs ELSE <<>>

\* A suspended join_game: the data it still needs and the record object it
\* captured. While that object is the one in the store, detached is FALSE;
\* once the store dropped or replaced it, obj holds the object and gen
\* names it, so that continuations sharing one object see each other's
\* writes. steps counts the handlers that ran since the suspension.
SuspendedJoin(sessionId, finalRole, themeId) ==
    [sessionId |-> sessionId, role |-> finalRole, theme |-> themeId,
     detached |-> FALSE, gen |-> 0, obj |-> <<>>, steps |-> 0]

FreshGen(pend) ==
    CHOOSE n \in 1..(Cardinality(Sockets) + 1) :
        /\ \A s \in DOMAIN pend : pend[s].gen # n
        /\ \A m \in 1..(n - 1) : \E s \in DOMAIN pend : pend[s].gen = m

\* The suspended joins once the store lets go of the record of sessionId
Detach(pend, sessionId) ==
    IF ~Has(games, sessionId) THEN pend
    ELSE LET n == FreshGen(pend)
         IN  [s \in DOMAIN pend |->
                 IF pend[s].sessionId = sessionId /\ ~pend[s].detached
                 THEN [pend[s] EXCEPT !.detached = TRUE, !.gen = n,
                                      !.obj = <<games[sessionId]>>]
                 ELSE pend[s]]

\* A handler other than a continuation runs while joins are suspended
AwaitOpen == \A s \in DOMAIN pending : pending[s].steps < MaxAwaitSteps
Tick(pend) == [s \in DOMAIN pend |-> [pend[s] EXCEPT !.steps = @ + 1]]
Pend(pend) == AwaitOpen /\ pending' = Tick(pend)

BothDisconnected(game) == ~game.attacker.connected /\ ~game.defender.connected

\* A session-level event (join, start, reset, replay, disconnect, sweep)
\* uses up one unit of the clients' budget; round events are free.
\* env.script follows the scenario "start with theme T, then three times:
\* attacks, one resolution (defend or timeout), one advance": it counts the
\* resolutions and advances seen since the start, and is ScriptOff once any
\* other event changed the session.
ScriptOff == 0 - 1
ScriptDone == 2 * RoundsPerTheme
Free == env' = env
FreeOff == env' = [env EXCEPT !.script = ScriptOff]
Spend == env.fuel > 0 /\ env' = [env EXCEPT !.fuel = @ - 1, !.script = ScriptOff]
SpendStart(themeId) ==
    /\ env.fuel > 0
    /\ env' = [env EXCEPT !.fuel = @ - 1,
                          !.script = IF env.track THEN 0 ELSE ScriptOff,
                          !.scriptTheme = IF env.track THEN themeId ELSE NullTheme]
\* An attack belongs to the scenario until its last advance has been made
ScriptAttack ==
    env' = [env EXCEPT !.script = IF @ = ScriptDone THEN ScriptOff ELSE @]
\* A resolution is step 1, 3, 5 of the scenario, an advance step 2, 4, 6
ScriptStep(parity) ==
    env' = [env EXCEPT !.script =
               IF @ # ScriptOff /\ @ < ScriptDone /\ (@ + 1) % 2 = parity
               THEN @ + 1 ELSE ScriptOff]

\* Theme ids, and the connections of one user, are interchangeable names:
\* a client offers a theme id only when every smaller id on offer is already
\* known to the session, and the second connection of a user sends its
\* first join or start only after the first one.
KnownThemes(sessionId) ==
    IF ~Has(games, sessionId) THEN {}
    ELSE LET g == games[sessionId]
         IN  {g.activeThemeId} \cup {g.playedThemes[i] : i \in DOMAIN g.playedThemes}
             \cup {g.history[i].themeId : i \in DOMAIN g.history}
             \cup {pending[s].theme : s \in DOMAIN pending}
ThemeOffer(sessionId, themeId) ==
    \A t \in env.themes : t < themeId => t \in KnownThemes(sessionId)
Entered(s) == ~sock[s].alive \/ sock[s].currentSessionId # NULL
SameUserBefore(s) == IF s = "s3" THEN {"s1"} ELSE {}
SocketTurn(s) == \A r \in SameUserBefore(s) : Entered(r)

-----------------------------------------------------------------------------
(* Initial state *)

IdleCalc == [pc |-> "idle"]

InitGame ==
    /\ games = <<>>
    /\ sock = [s \in Sockets |-> [alive |-> TRUE, currentSessionId |-> NULL]]
    /\ pending = <<>>
    /\ timers = <<>>
    /\ out = <<>>

Init ==
    /\ InitGame
    /\ env = [fuel |-> MaxFuel, maxHistory |-> MaxHistory,
              maxRound |-> MaxRoundNumber, observe |-> FALSE,
              themes |-> ThemeIds, track |-> FALSE,
              script |-> ScriptOff, scriptTheme |-> NullTheme]
    /\ calc = IdleCalc

-----------------------------------------------------------------------------
(* Handlers *)

\* join_game without a sessionId
JoinGameNoSession(s) ==
    /\ sock[s].alive
    /\ Emit(ErrorTo(s, "sessionId required"))
    /\ Free
    /\ Pend(pending)
    /\ UNCHANGED <<games, sock, timers, calc>>

\* join_game up to its await
JoinGame(s, sessionId, requestedRole, themeId, userId) ==
    /\ sock[s].alive
    /\ ~Has(pending, s)
    /\ Cardinality(DOMAIN pending) < MaxPending
    /\ SocketTurn(s)
    /\ ThemeOffer(sessionId, themeId)
    /\ Spend
    /\ LET game == getOrCreateGame(sessionId)
           finalRole == JoinFinalRole(game, requestedRole, userId)
       IN  IF finalRole = "wait"
           THEN /\ games' = Put(games, sessionId, game)
                /\ Emit(ErrorTo(s, "waiting for the host"))
                /\ Pend(pending)
                /\ UNCHANGED sock
           ELSE IF finalRole = "full"
           THEN /\ games' = Put(games, sessionId, game)
                /\ Emit(ErrorTo(s, "session full"))
                /\ Pend(pending)
                /\ UNCHANGED sock
           ELSE /\ games' = Put(games, sessionId,
                                JoinAssign(game, finalRole, s, userId))
                /\ sock' = [sock EXCEPT ![s].currentSessionId = sessionId]
                /\ AwaitOpen
                /\ pending' = Put(Tick(pending), s,
                                  SuspendedJoin(sessionId, finalRole, themeId))
                /\ Emit(<<>>)
    /\ UNCHANGED <<timers, calc>>

\* join_game after its await
JoinGameResume(s) ==
    /\ Has(pending, s)
    /\ LET p == pending[s]
           game == IF p.detached THEN p.obj[1] ELSE games[p.sessionId]
           after == JoinFinish(game, p.theme)
       IN  /\ games' = IF p.detached THEN games
                       ELSE [games EXCEPT ![p.sessionId] = after]
           /\ pending' =
                 [x \in DOMAIN pending \ {s} |->
                     IF p.detached /\ pending[x].gen = p.gen
                     THEN [pending[x] EXCEPT !.obj = <<after>>]
                     ELSE pending[x]]
           /\ Emit(<<StateTo(p.sessionId, after),
                     ToRoom(p.sessionId, "player_joined",
                            <<[role |-> p.role, socketId |-> s]>>)>>)
    /\ FreeOff
    /\ UNCHANGED <<sock, timers, calc>>

\* start_game with neither a sessionId nor a current session
StartGameNoSession(s) ==
    /\ sock[s].alive
    /\ sock[s].currentSessionId = NULL
    /\ Emit(ErrorTo(s, "not in a session"))
    /\ Free
    /\ Pend(pending)
    /\ UNCHANGED <<games, sock, timers, calc>>

\* start_game (sessionId = NULL: the payload names no session)
StartGame(s, sessionId, role, themeId, userId) ==
    /\ sock[s].alive
    /\ SocketTurn(s)
    /\ SpendStart(themeId)
    /\ LET target == IF sessionId # NULL THEN sessionId
                     ELSE sock[s].currentSessionId
           switch == sessionId # NULL /\ sessionId # sock[s].currentSessionId
           game == IF Has(games, target) THEN games[target]
                   ELSE StartCreate(target, role, s, userId)
           after == StartApply(game, role, s, userId, themeId)
       IN  /\ target # NULL
           /\ ThemeOffer(target, themeId)
           /\ sock' = [sock EXCEPT
                 ![s].currentSessionId = IF switch THEN sessionId ELSE @]
           /\ games' = Put(games, target, after)
           /\ Emit(<<StateTo(target, after),
                     ToRoom(target, "game_started", <<Theme(themeId)>>)>>)
    /\ Pend(pending)
    /\ UNCHANGED <<timers, calc>>

\* A handler that returns at once: no session, or no record for it
Ignored(s) ==
    \/ sock[s].currentSessionId = NULL
    \/ ~Has(games, sock[s].currentSessionId)

\* The record of the current session of the connection s
GameOf(s) == games[sock[s].currentSessionId]

Nothing ==
    /\ Emit(<<>>)
    /\ Free
    /\ Pend(pending)
    /\ UNCHANGED <<games, sock, timers, calc>>

Rejected(s, message) ==
    /\ Emit(ErrorTo(s, message))
    /\ Free
    /\ Pend(pending)
    /\ UNCHANGED <<games, sock, timers, calc>>

\* The record of the caller's session becomes `after`, and is broadcast
\* with one more notification
Applied(s, after, event, payload) ==
    /\ games' = [games EXCEPT ![sock[s].currentSessionId] = after]
    /\ Emit(<<StateTo(sock[s].currentSessionId, after),
              ToRoom(sock[s].currentSessionId, event, payload)>>)
    /\ Pend(pending)
    /\ UNCHANGED <<sock, timers, calc>>

ExecuteAttack(s, toolId) ==
    /\ sock[s].alive
    /\ IF Ignored(s) THEN Nothing
       ELSE LET game == games[sock[s].currentSessionId]
                after == AttackApply(game, toolId)
            IN  IF game.attacker.socketId # s
                THEN Rejected(s, "only the attacker may attack")
                ELSE IF game.status = THEME_COMPLETED
                THEN Rejected(s, "the theme is completed")
                ELSE /\ game.roundNumber < env.maxRound
                     /\ ScriptAttack
                     /\ Applied(s, after, "attack_executed",
                                <<[toolId |-> toolId,
                                   roundNumber |-> after.roundNumber,
                                   startTime |-> after.currentRound.startTime]>>)

ExecuteDefense(s, toolId, isCorrect, timeRemaining) ==
    /\ sock[s].alive
    /\ IF Ignored(s) THEN Nothing
       ELSE LET game == games[sock[s].currentSessionId]
            IN  IF game.status # ATTACKING THEN Nothing
                ELSE IF game.defender.socketId # s
                THEN Rejected(s, "only the defender may defend")
                ELSE /\ Len(game.history) < env.maxHistory
                     /\ ScriptStep(1)
                     /\ Applied(s, DefenseApply(game, toolId, isCorrect, timeRemaining),
                                "round_result",
                                <<DefenseResult(game, toolId, isCorrect, timeRemaining)>>)

TimeExpired(s) ==
    /\ sock[s].alive
    /\ IF Ignored(s) THEN Nothing
       ELSE LET game == games[sock[s].currentSessionId]
            IN  IF game.status # ATTACKING THEN Nothing
                ELSE /\ Len(game.history) < env.maxHistory
                     /\ ScriptStep(1)
                     /\ Applied(s, TimeoutApply(game), "round_result",
                                <<TimeoutResult(game)>>)

\* handleNextRound(game, sessionId) with its notifications
Advance(s, game) ==
    LET after == handleNextRound(game)
        sid == sock[s].currentSessionId
    IN  /\ (NormalCount(game.themeRoundCount) < RoundsPerTheme
               => game.roundNumber < env.maxRound)
        /\ games' = [games EXCEPT ![sid] = after]
        /\ Emit(IF after.status = ATTACKING
                THEN <<StateTo(sid, after), ToRoom(sid, "next_round_ready", <<>>)>>
                ELSE <<StateTo(sid, after)>>)
        /\ ScriptStep(0)
        /\ Pend(pending)
        /\ UNCHANGED <<sock, timers, calc>>

ChooseNextRole(s, role) ==
    /\ sock[s].alive
    /\ IF Ignored(s) THEN Nothing
       ELSE LET game == games[sock[s].currentSessionId]
            IN  IF game.history = <<>> THEN Nothing
                ELSE IF CallerRole(game, s) # game.history[Len(game.history)].winner
                THEN Rejected(s, "only the winner of the last round may choose")
                ELSE Advance(s, ChooseRoles(game, s, role))

NextRound(s) ==
    /\ sock[s].alive
    /\ IF Ignored(s) THEN Nothing
       ELSE Advance(s, games[sock[s].currentSessionId])

ResetGame(s) ==
    /\ sock[s].alive
    /\ IF sock[s].currentSessionId = NULL THEN Nothing
       ELSE LET sid == sock[s].currentSessionId
                freshState == createInitialState(sid)
            IN  /\ Spend
                /\ games' = Put(games, sid, freshState)
                /\ Pend(Detach(pending, sid))
                /\ Emit(<<StateTo(sid, freshState), ToRoom(sid, "game_reset", <<>>)>>)
                /\ UNCHANGED <<sock, timers, calc>>

ReplayGame(s) ==
    /\ sock[s].alive
    /\ IF Ignored(s) THEN Nothing
       ELSE /\ Spend
            /\ Applied(s, ReplayApply(games[sock[s].currentSessionId]),
                       "game_replay", <<>>)

RequestState(s) ==
    /\ sock[s].alive
    /\ IF Ignored(s) THEN Nothing
       ELSE /\ Emit(<<ToSocket(s, "game_state",
                               <<toClientState(games[sock[s].currentSessionId])>>)>>)
            /\ Free
            /\ Pend(pending)
            /\ UNCHANGED <<games, sock, timers, calc>>

Disconnect(s) ==
    /\ sock[s].alive
    /\ Spend
    /\ sock' = [sock EXCEPT ![s].alive = FALSE]
    /\ IF Ignored(s)
       THEN /\ Emit(<<>>)
            /\ UNCHANGED <<games, timers>>
       ELSE LET sid == sock[s].currentSessionId
                after == DisconnectApply(games[sid], s)
            IN  /\ games' = [games EXCEPT ![sid] = after]
                /\ Emit(<<ToRoom(sid, "player_disconnected", <<[socketId |-> s]>>),
                          StateTo(sid, after)>>)
                /\ timers' = IF BothDisconnected(after)
                             THEN Append(timers, sid) ELSE timers
    /\ Pend(pending)
    /\ UNCHANGED calc

\* IdleTimeout, were the callback to delete the record without looking at
\* its slots again
IdleTimeoutUnchecked ==
    /\ timers # <<>>
    /\ LET sid == Head(timers)
       IN  IF Has(games, sid)
           THEN /\ games' = Remove(games, sid)
                /\ Pend(Detach(pending, sid))
                /\ FreeOff
           ELSE /\ Pend(pending)
                /\ Free
                /\ UNCHANGED games
    /\ timers' = Tail(timers)
    /\ Emit(<<>>)
    /\ UNCHANGED <<sock, calc>>

\* The callback of the oldest pending idle-deletion timeout
IdleTimeout ==
    /\ timers # <<>>
    /\ LET sid == Head(timers)
       IN  IF Has(games, sid) /\ BothDisconnected(games[sid])
           THEN /\ games' = Remove(games, sid)
                /\ Pend(Detach(pending, sid))
                /\ FreeOff
           ELSE /\ Pend(pending)
                /\ Free
                /\ UNCHANGED games
    /\ timers' = Tail(timers)
    /\ Emit(<<>>)
    /\ UNCHANGED <<sock, calc>>

\* The periodic sweep, for a record whose updatedAt is more than an hour
\* old. The wall clock is not part of the state: any record may have aged.
Sweep(sessionId) ==
    /\ Has(games, sessionId)
    /\ Spend
    /\ games' = Remove(games, sessionId)
    /\ Pend(Detach(pending, sessionId))
    /\ Emit(<<>>)
    /\ UNCHANGED <<sock, timers, calc>>

-----------------------------------------------------------------------------
(* Specification *)

RoleIn == Roles \cup {NULL}

Next ==
    \/ \E s \in Sockets : JoinGameNoSession(s)
    \/ \E s \in Sockets, sid \in Sessions, r \in RoleIn,
          t \in ThemeIds \cup {NullTheme} :
            JoinGame(s, sid, r, t, UserOf(s))
    \/ \E s \in Sockets : JoinGameResume(s)
    \/ \E s \in Sockets : StartGameNoSession(s)
    \/ \E s \in Sockets, sid \in Sessions \cup {NULL}, r \in RoleIn,
          t \in ThemeIds :
            StartGame(s, sid, r, t, UserOf(s))
    \/ \E s \in Sockets : ExecuteAttack(s, AttackTool)
    \/ \E s \in Sockets, c \in BOOLEAN, t \in TimeRemainingIn :
            ExecuteDefense(s, DefenseTool, c, t)
    \/ \E s \in Sockets : TimeExpired(s)
    \/ \E s \in Sockets, r \in Roles : ChooseNextRole(s, r)
    \/ \E s \in Sockets : NextRound(s)
    \/ \E s \in Sockets : ResetGame(s)
    \/ \E s \in Sockets : ReplayGame(s)
    \/ \E s \in Sockets : RequestState(s)
    \/ \E s \in Sockets : Disconnect(s)
    \/ IdleTimeout
    \/ \E sid \in Sessions : Sweep(sid)

Spec == Init /\ [][Next]_vars

-----------------------------------------------------------------------------
(* The end of the catalog: the session after the host s1 has joined as
   attacker once with each of the themes 1..PlayedBefore *)

RECURSIVE AfterJoins(_)
AfterJoins(n) ==
    IF n = 0 THEN createInitialState("S1")
    ELSE LET game == AfterJoins(n - 1)
             finalRole == JoinFinalRole(game, "attacker", UserOf("s1"))
         IN  JoinFinish(JoinAssign(game, finalRole, "s1", UserOf("s1")), n)

InitFinal ==
    /\ games = [sid \in {"S1"} |-> AfterJoins(PlayedBefore)]
    /\ sock = [s \in Sockets |->
                 [alive |-> TRUE,
                  currentSessionId |-> IF s = "s1" THEN "S1" ELSE NULL]]
    /\ pending = <<>>
    /\ timers = <<>>
    /\ out = <<>>
    /\ env = [fuel |-> FinalFuel, maxHistory |-> FinalHistory,
              maxRound |-> FinalRoundNumber, observe |-> FALSE,
              themes |-> FinalThemes, track |-> TRUE,
              script |-> ScriptOff, scriptTheme |-> NullTheme]
    /\ calc = IdleCalc

\* The clients of this match play in order: one attack per round, the
\* resolution after the attack, the advance after the resolution; once the
\* theme or the game has ended they may attack again.
RoundOf(s) == games[sock[s].currentSessionId].currentRound
RoundOpen(s) ==
    /\ ~Ignored(s)
    /\ \/ RoundOf(s).attackerTool = NULL
       \/ games[sock[s].currentSessionId].status \in {THEME_COMPLETED, GAME_FINISHED}
RoundUnderAttack(s) == ~Ignored(s) /\ RoundOf(s).attackerTool # NULL
RoundResolved(s) ==
    ~Ignored(s) /\ games[sock[s].currentSessionId].status \in {DEFENDED, BREACHED}

NextFinal ==
    \/ \E r \in {NULL, "attacker"}, t \in FinalThemes \cup {NullTheme} :
            JoinGame("s2", "S1", r, t, UserOf("s2"))
    \/ \E s \in FinalSockets : JoinGameResume(s)
    \/ \E s \in FinalSockets, t \in FinalThemes :
            StartGame(s, "S1", NULL, t, UserOf(s))
    \/ \E s \in FinalSockets : RoundOpen(s) /\ ExecuteAttack(s, AttackTool)
    \/ \E s \in FinalSockets, t \in TimeRemainingIn :
            RoundUnderAttack(s) /\ ExecuteDefense(s, DefenseTool, TRUE, t)
    \/ \E s \in FinalSockets : RoundUnderAttack(s) /\ TimeExpired(s)
    \/ \E s \in FinalSockets, r \in Roles :
            RoundResolved(s) /\ ChooseNextRole(s, r)
    \/ \E s \in FinalSockets : RoundResolved(s) /\ NextRound(s)

SpecFinal == InitFinal /\ [][NextFinal]_vars

-----------------------------------------------------------------------------
(* calculateScore called on its own *)

\* A call of calculateScore with the budget maxTime, or a defend on a record
\* whose theme has the tempo maxTime (0: the theme has none)
ScoreCalls ==
    [pc : {"score"}, timeRemaining : 0..MaxTimeIn, maxTime : BudgetIn,
     correct : BOOLEAN, streak : 0..MaxStreakIn, result : {0}]
    \cup
    [pc : {"defend"}, timeRemaining : 0..MaxTimeIn, maxTime : BudgetIn \cup {0},
     correct : BOOLEAN, streak : 0..MaxStreakIn, result : {0}]

\* The record the defend of a call finds
DefendedGame(c) ==
    [createInitialState("S1") EXCEPT
        !.status = ATTACKING,
        !.activeThemeId = 1,
        !.activeTheme = [id |-> 1, tempo |-> c.maxTime],
        !.streak = c.streak]

InitScore ==
    /\ InitGame
    /\ env = [fuel |-> 0, maxHistory |-> 0, maxRound |-> 0, observe |-> FALSE,
              themes |-> {}, track |-> FALSE,
              script |-> ScriptOff, scriptTheme |-> NullTheme]
    /\ calc \in ScoreCalls

CallCalculateScore ==
    /\ calc.pc = "score"
    /\ calc' = [calc EXCEPT
                   !.pc = "scored",
                   !.result = calculateScore(calc.timeRemaining, calc.maxTime,
                                             calc.correct, calc.streak)]
    /\ UNCHANGED <<games, sock, pending, timers, out, env>>

\* The defender score a defend adds, taken from the record it leaves
CallDefense ==
    /\ calc.pc = "defend"
    /\ LET game == DefendedGame(calc)
           after == DefenseApply(game, DefenseTool, calc.correct,
                                 calc.timeRemaining)
       IN  calc' = [calc EXCEPT
                      !.pc = "defended",
                      !.result = after.defenderScore - game.defenderScore]
    /\ UNCHANGED <<games, sock, pending, timers, out, env>>

NextScore == CallCalculateScore \/ CallDefense

SpecScore == InitScore /\ [][NextScore]_vars

-----------------------------------------------------------------------------
(* One match on a new session: the attacker joins, the defender joins, a
   start, then one round and the choice of the next roles *)

InitMatch ==
    /\ InitGame
    /\ env = [fuel |-> MatchFuel, maxHistory |-> MatchHistory,
              maxRound |-> MatchRoundNumber, observe |-> FALSE,
              themes |-> ThemeIds, track |-> TRUE,
              script |-> ScriptOff, scriptTheme |-> NullTheme]
    /\ calc = IdleCalc

\* The events of the match come in order, each after the one before it has
\* run to its end: env.fuel tells how many of the two joins and the start
\* are still to come, and MatchFuel - 3 that all three have been made.
Settled(left) == env.fuel = left /\ pending = <<>>

NextMatch ==
    \/ \E s \in Sockets, t \in ThemeIds \cup {NullTheme} :
            /\ Settled(MatchFuel)
            /\ JoinGame(s, "S1", "attacker", t, UserOf(s))
    \/ \E s \in Sockets : JoinGameResume(s)
    \/ \E s \in Sockets, r \in {NULL, "defender"},
          t \in ThemeIds \cup {NullTheme} :
            /\ Settled(MatchFuel - 1)
            /\ games["S1"].attacker.socketId # s
            /\ JoinGame(s, "S1", r, t, UserOf(s))
    \/ \E s \in Sockets, sid \in Sessions \cup {NULL}, r \in RoleIn,
          t \in ThemeIds :
            /\ Settled(MatchFuel - 2)
            /\ StartGame(s, sid, r, t, UserOf(s))
    \/ \E s \in Sockets :
            /\ Settled(MatchFuel - 3)
            /\ RoundOpen(s)
            /\ games["S1"].attacker.socketId = s
            /\ ExecuteAttack(s, AttackTool)
    \/ \E s \in Sockets, c \in BOOLEAN, t \in TimeRemainingIn :
            /\ RoundUnderAttack(s)
            /\ games["S1"].defender.socketId = s
            /\ ExecuteDefense(s, DefenseTool, c, t)
    \/ \E s \in Sockets : RoundUnderAttack(s) /\ TimeExpired(s)
    \/ \E s \in Sockets, r \in Roles :
            /\ Settled(MatchFuel - 3)
            /\ ~Ignored(s)
            /\ games["S1"].history # <<>>
            /\ CallerRole(games["S1"], s) # NULL
            /\ ChooseNextRole(s, r)

SpecMatch == InitMatch /\ [][NextMatch]_vars

-----------------------------------------------------------------------------
(* Two connections, one theme, and one more session-level event per run
   than in Spec *)

LongThemes == {1}

InitLong ==
    /\ InitGame
    /\ env = [fuel |-> LongFuel, maxHistory |-> LongHistory,
              maxRound |-> LongRoundNumber, observe |-> FALSE,
              themes |-> LongThemes, track |-> FALSE,
              script |-> ScriptOff, scriptTheme |-> NullTheme]
    /\ calc = IdleCalc

NextLong ==
    \/ \E s \in FinalSockets, sid \in Sessions, r \in RoleIn,
          t \in LongThemes \cup {NullTheme} :
            JoinGame(s, sid, r, t, UserOf(s))
    \/ \E s \in FinalSockets : JoinGameResume(s)
    \/ \E s \in FinalSockets, sid \in Sessions \cup {NULL}, r \in RoleIn,
          t \in LongThemes :
            StartGame(s, sid, r, t, UserOf(s))
    \/ \E s \in FinalSockets : ExecuteAttack(s, AttackTool)
    \/ \E s \in FinalSockets, c \in BOOLEAN, t \in TimeRemainingIn :
            ExecuteDefense(s, DefenseTool, c, t)
    \/ \E s \in FinalSockets : TimeExpired(s)
    \/ \E s \in FinalSockets, r \in Roles : ChooseNextRole(s, r)
    \/ \E s \in FinalSockets : NextRound(s)
    \/ \E s \in FinalSockets : ResetGame(s)
    \/ \E s \in FinalSockets : ReplayGame(s)
    \/ \E s \in FinalSockets : RequestState(s)
    \/ \E s \in FinalSockets : Disconnect(s)
    \/ IdleTimeout
    \/ \E sid \in Sessions : Sweep(sid)

SpecLong == InitLong /\ [][NextLong]_vars

\* The same events with the notifications of every handler observed
InitObserved ==
    /\ InitGame
    /\ env = [fuel |-> LongFuel, maxHistory |-> LongHistory,
              maxRound |-> ObservedRoundNumber, observe |-> TRUE,
              themes |-> LongThemes, track |-> FALSE,
              script |-> ScriptOff, scriptTheme |-> NullTheme]
    /\ calc = IdleCalc

SpecObserved == InitObserved /\ [][NextLong]_vars

-----------------------------------------------------------------------------
(* Players coming and going: joins, resets, disconnects and the idle
   timers, with no rounds played. A connection leaves while it is seated in
   a slot of its session, so every timer is scheduled for a record a player
   has left. *)

InitIdle ==
    /\ InitGame
    /\ env = [fuel |-> IdleFuel, maxHistory |-> 0, maxRound |-> 0,
              observe |-> FALSE, themes |-> {}, track |-> FALSE,
              script |-> ScriptOff, scriptTheme |-> NullTheme]
    /\ calc = IdleCalc

Seated(s) == ~Ignored(s) /\ CallerRole(GameOf(s), s) # NULL

NextIdle ==
    \/ \E s \in FinalSockets, r \in RoleIn :
            JoinGame(s, "S1", r, NullTheme, UserOf(s))
    \/ \E s \in FinalSockets : JoinGameResume(s)
    \/ \E s \in FinalSockets : ResetGame(s)
    \/ \E s \in FinalSockets : Seated(s) /\ Disconnect(s)
    \/ IdleTimeout

SpecIdle == InitIdle /\ [][NextIdle]_vars

-----------------------------------------------------------------------------
(* Properties *)

\* The records a step leaves in the store under the same session id
Kept == DOMAIN games \cap DOMAIN games'

\* The session a start_game of socket s with payload sessionId targets
StartTarget(s, sessionId) ==
    IF sessionId # NULL THEN sessionId ELSE sock[s].currentSessionId

\* The step is a start_game on the session sid
StartOf(sid) ==
    \E s \in Sockets, a \in Sessions \cup {NULL}, r \in RoleIn, t \in ThemeIds :
        StartTarget(s, a) = sid /\ StartGame(s, a, r, t, UserOf(s))

\* The step is one of the two halves of a join_game on the stored record of sid
JoinOf(sid) ==
    \/ \E s \in Sockets, r \in RoleIn, t \in ThemeIds \cup {NullTheme} :
            JoinGame(s, sid, r, t, UserOf(s))
    \/ \E s \in Sockets :
            /\ Has(pending, s)
            /\ pending[s].sessionId = sid
            /\ ~pending[s].detached
            /\ JoinGameResume(s)

\* The step is an advance: a next_round or a choose_next_role
AdvanceOf(sid) ==
    \E s \in Sockets :
        /\ sock[s].currentSessionId = sid
        /\ NextRound(s) \/ \E r \in Roles : ChooseNextRole(s, r)

Occurrences(seq, x) == Cardinality({i \in DOMAIN seq : seq[i] = x})

LastOf(seq) == seq[Len(seq)]

\* C1: in every record of the store, totalRounds equals the number of
\* history entries.
C1_TotalRoundsIsHistoryLength ==
    \A sid \in DOMAIN games :
        games[sid].totalRounds = Len(games[sid].history)

\* A record with a resolved round on it
C1_Witness ==
    \E sid \in DOMAIN games :
        /\ games[sid].history # <<>>
        /\ LastOf(games[sid].history).timedOut
        /\ games[sid].totalRounds = 1

\* C2: themeRoundCount of every record is in 1..3, the fresh and the reset
\* record included.
C2_ThemeRoundCountInRange ==
    \A sid \in DOMAIN games : games[sid].themeRoundCount \in 1..3

\* The step gave the session another theme (a reset leaves it with none; the
\* count of the record a reset installs is the subject of C2)
ThemeChanged(sid) ==
    games'[sid].activeThemeId \notin {games[sid].activeThemeId, NullTheme}

\* The step set themeRoundCount back to 1
SetBackToOne(sid) ==
    games'[sid].themeRoundCount = 1 /\ games[sid].themeRoundCount # 1

\* C3 as the specification states it: an event sets themeRoundCount back to
\* 1 iff it changed activeThemeId; a join or a start that supplies the theme
\* already active leaves themeRoundCount unchanged, and every change of
\* activeThemeId sets it to 1.
C3_SetBackIffThemeChanged ==
    [][\A sid \in Kept :
          /\ ThemeChanged(sid) => games'[sid].themeRoundCount = 1
          /\ SetBackToOne(sid) => ThemeChanged(sid)
          /\ ((JoinOf(sid) \/ StartOf(sid)) /\ ~ThemeChanged(sid))
                => games'[sid].themeRoundCount = games[sid].themeRoundCount
      ]_vars

\* C3: every start sets themeRoundCount to 1, also one that supplies the
\* theme already active; a join sets it to 1 exactly when it changes
\* activeThemeId and otherwise leaves it unchanged; every change of
\* activeThemeId to another theme sets it to 1, and no other event sets it
\* back to 1.
C3_SetBackByStartOrThemeChange ==
    [][\A sid \in Kept :
          /\ ThemeChanged(sid) => games'[sid].themeRoundCount = 1
          /\ StartOf(sid) => games'[sid].themeRoundCount = 1
          /\ SetBackToOne(sid) => (ThemeChanged(sid) \/ StartOf(sid))
          /\ (JoinOf(sid) /\ ~ThemeChanged(sid))
                => games'[sid].themeRoundCount = games[sid].themeRoundCount
      ]_vars

\* A session back in LOBBY at round 0 and count 1, with a resolved round of
\* its active theme behind it: a start supplied the theme already active (a
\* replay leaves READY, a join leaves the round number and lists the theme
\* as played)
C3_Witness ==
    \E sid \in DOMAIN games :
        LET game == games[sid]
        IN  /\ game.history # <<>>
            /\ LastOf(game.history).themeId = game.activeThemeId
            /\ ~Includes(game.playedThemes, game.activeThemeId)
            /\ game.status = LOBBY
            /\ game.roundNumber = 0
            /\ game.themeRoundCount = 1

Nearest(num, den) ==
    CHOOSE r \in 0..(num \div den + 1) :
        /\ 2 * den * r - den <= 2 * num
        /\ 2 * num < 2 * den * r + den

\* The score of the specification's formula
FormulaScore(timeRemaining, budget, correct, streak) ==
    IF correct
    THEN 100 + Nearest(200 * timeRemaining, budget) + 50 * streak
    ELSE 0

\* C5: calculateScore returns 100 + round(200 * timeRemaining / budget)
\* + 50 * streak for a correct defense and 0 for an incorrect one, and a
\* defend scores with the budget of the active theme (30 when it has none)
\* and the streak held before the defend.
C5_ScoreFormula ==
    /\ calc.pc = "scored"
          => calc.result = FormulaScore(calc.timeRemaining, calc.maxTime,
                                        calc.correct, calc.streak)
    /\ calc.pc = "defended"
          => calc.result = FormulaScore(calc.timeRemaining,
                                        IF calc.maxTime = 0 THEN 30
                                        ELSE calc.maxTime,
                                        calc.correct, calc.streak)

\* C6: a timeout in ATTACKING adds 200 to attackerScore, leaves
\* defenderScore, sets streak to 0 and status to BREACHED, and appends one
\* round result with timedOut and the attacker as winner; a timeout in any
\* other status changes nothing.
C6_Timeout ==
    [][\A s \in Sockets :
          TimeExpired(s) =>
              IF Ignored(s) THEN games' = games
              ELSE LET sid == sock[s].currentSessionId
                       before == games[sid]
                       after == games'[sid]
                   IN  IF before.status # ATTACKING THEN games' = games
                       ELSE /\ after.attackerScore = before.attackerScore + 200
                            /\ after.defenderScore = before.defenderScore
                            /\ after.streak = 0
                            /\ after.status = BREACHED
                            /\ Len(after.history) = Len(before.history) + 1
                            /\ SubSeq(after.history, 1, Len(before.history))
                                  = before.history
                            /\ LastOf(after.history).timedOut
                            /\ LastOf(after.history).winner = "attacker"
      ]_vars

\* A round that timed out while a streak was held: BREACHED, streak 0
C6_Witness ==
    \E sid \in DOMAIN games :
        LET game == games[sid]
        IN  /\ game.history # <<>>
            /\ LastOf(game.history).timedOut
            /\ game.status = BREACHED
            /\ game.attackerScore = 200
            /\ game.streak = 0

\* The record of the session played in SpecFinal
Final == games["S1"]

\* C7 as the specification states it: after a start with theme T and three
\* rounds, each resolved and followed by an advance, the third advance
\* leaves status THEME_COMPLETED and T exactly once in playedThemes.
C7_ThirdAdvanceCompletesTheme ==
    env.script = ScriptDone
        => /\ Final.status = THEME_COMPLETED
           /\ Occurrences(Final.playedThemes, env.scriptTheme) = 1

\* C7: after a start with theme T and three rounds, each resolved and
\* followed by an advance, the third advance leaves T exactly once in
\* playedThemes, and status THEME_COMPLETED while playedThemes holds fewer
\* than 11 themes, GAME_FINISHED once it holds 11.
C7_ThirdAdvanceCompletesOrFinishes ==
    env.script = ScriptDone
        => /\ Occurrences(Final.playedThemes, env.scriptTheme) = 1
           /\ Final.status = IF Len(Final.playedThemes) < 11
                             THEN THEME_COMPLETED ELSE GAME_FINISHED

\* The third advance after a start, three rounds of the started theme in
\* history, the theme completed
C7_Witness ==
    /\ env.script = ScriptDone
    /\ Final.status = THEME_COMPLETED
    /\ Len(Final.history) = 3
    /\ \A i \in DOMAIN Final.history : Final.history[i].themeId = env.scriptTheme

\* The themes of the second sequence that the first one lacks
Added(before, after) ==
    {after[i] : i \in DOMAIN after} \ {before[i] : i \in DOMAIN before}

\* The resolved rounds of theme t
RoundsOf(game, t) == Cardinality({i \in DOMAIN game.history :
                                      game.history[i].themeId = t})

SumGained(h, u) ==
    LET won == SelectSeq(h, LAMBDA r : r.winnerUserId = u)
        Sum[n \in 0..Len(won)] ==
            IF n = 0 THEN 0 ELSE Sum[n - 1] + won[n].scoreGained
    IN  Sum[Len(won)]

\* The first round of history h won by user u
FirstWin(h, u) ==
    CHOOSE i \in DOMAIN h :
        /\ h[i].winnerUserId = u
        /\ \A j \in 1..(i - 1) : h[j].winnerUserId # u

\* The user with the highest sum of scoreGained over h, among equal sums the
\* one who won a round first; NULL when no round names a user
HighestScorer(h) ==
    LET users == {h[i].winnerUserId : i \in DOMAIN h} \ {NULL}
    IN  IF users = {} THEN NULL
        ELSE CHOOSE u \in users :
                \A v \in users \ {u} :
                    \/ SumGained(h, u) > SumGained(h, v)
                    \/ /\ SumGained(h, u) = SumGained(h, v)
                       /\ FirstWin(h, u) < FirstWin(h, v)

\* C9: an advance that brings playedThemes to 11 entries sets status to
\* GAME_FINISHED and globalWinnerUserId to the user with the highest sum of
\* scoreGained over the whole history, among equal sums the first in
\* history order; status is never GAME_FINISHED with fewer than 11 played
\* themes.
C9_GameFinished ==
    /\ [](\A sid \in DOMAIN games :
             games[sid].status = GAME_FINISHED
                 => Len(games[sid].playedThemes) >= 11)
    /\ [][\A sid \in Kept :
             (/\ AdvanceOf(sid)
              /\ Len(games[sid].playedThemes) < 11
              /\ Len(games'[sid].playedThemes) >= 11)
             => /\ games'[sid].status = GAME_FINISHED
                /\ games'[sid].globalWinnerUserId
                      = HighestScorer(games'[sid].history)
         ]_vars

\* C10: a replay leaves the scores, history, totalRounds, both slots, the
\* active theme, themeRoundCount and playedThemes as they were, and sets
\* roundNumber to 0, streak to 0, the current round to all-null and status
\* to READY.
C10_ReplayFrame ==
    [][\A s \in Sockets :
          (ReplayGame(s) /\ ~Ignored(s)) =>
              LET sid == sock[s].currentSessionId
                  before == games[sid]
                  after == games'[sid]
              IN  /\ after.attackerScore = before.attackerScore
                  /\ after.defenderScore = before.defenderScore
                  /\ after.history = before.history
                  /\ after.totalRounds = before.totalRounds
                  /\ after.attacker = before.attacker
                  /\ after.defender = before.defender
                  /\ after.activeThemeId = before.activeThemeId
                  /\ after.activeTheme = before.activeTheme
                  /\ after.themeRoundCount = before.themeRoundCount
                  /\ after.playedThemes = before.playedThemes
                  /\ after.roundNumber = 0
                  /\ after.streak = 0
                  /\ after.currentRound.attackerTool = NULL
                  /\ after.currentRound.defenderTool = NULL
                  /\ after.currentRound.startTime = NULL
                  /\ after.currentRound.endTime = NULL
                  /\ after.status = READY
      ]_vars

\* A session replayed after a scored round: READY at round 0 with an empty
\* defender slot (join and start leave such a session in LOBBY), the score
\* and the history still there
C10_Witness ==
    \E sid \in DOMAIN games :
        LET game == games[sid]
        IN  /\ game.status = READY
            /\ game.roundNumber = 0
            /\ game.defender.socketId = NULL
            /\ game.totalRounds = 1
            /\ game.attackerScore > 0
            /\ game.currentRound.endTime = NULL


\* The record of the session played in SpecMatch
Match == games["S1"]

\* C11: on a new session, after the attacker's join the status is LOBBY,
\* after the defender's join READY, after a start with a theme of budget 30
\* READY with themeRoundCount 1, after the attacker's attack ATTACKING with
\* roundNumber 1, and after a correct defend with timeRemaining 20 DEFENDED
\* with defenderScore 233, attackerScore 0, streak 1 and one history entry.
C11_FirstRound ==
    /\ Settled(MatchFuel - 1) => Match.status = LOBBY
    /\ Settled(MatchFuel - 2) => Match.status = READY
    /\ (Settled(MatchFuel - 3) /\ env.script = 0 /\ Match.currentRound.attackerTool = NULL)
          => /\ Match.status = READY
             /\ Match.themeRoundCount = 1
    /\ (Settled(MatchFuel - 3) /\ env.script = 0 /\ Match.currentRound.attackerTool # NULL)
          => /\ Match.status = ATTACKING
             /\ Match.roundNumber = 1
    /\ (/\ Settled(MatchFuel - 3)
        /\ env.script = 1
        /\ ThemeTempoOr(Match, DefaultMaxTime) = 30
        /\ LastOf(Match.history).isCorrect)
          => /\ Match.status = DEFENDED
             /\ Match.defenderScore = 233
             /\ Match.attackerScore = 0
             /\ Match.streak = 1
             /\ Len(Match.history) = 1

\* The match right after the correct defend of its first round, the started
\* theme carrying the tempo 30
C11_Witness ==
    /\ Settled(MatchFuel - 3)
    /\ env.script = 1
    /\ LastOf(Match.history).isCorrect
    /\ Match.activeTheme.tempo = 30
    /\ Match.currentRound.defenderTool = DefenseTool


\* The handler of the step sent one notification, an error to the
\* connection s
OnlyErrorTo(s) ==
    /\ Len(out') = 1
    /\ out'[1].to = s
    /\ out'[1].event = "error"

\* C12: an attack by a connection that is not in the attacker slot, a defend
\* by a connection that is not in the defender slot and a choose_next_role
\* by a connection that does not hold the role that won the last round each
\* leave the session record unchanged and send one error notification, to
\* the sender only.
C12_RoleMismatchRejected ==
    [][\A s \in FinalSockets :
          ~Ignored(s) =>
              /\ (ExecuteAttack(s, AttackTool) /\ GameOf(s).attacker.socketId # s)
                    => (games' = games /\ OnlyErrorTo(s))
              /\ ((\E c \in BOOLEAN, t \in TimeRemainingIn :
                       ExecuteDefense(s, DefenseTool, c, t))
                  /\ GameOf(s).defender.socketId # s)
                    => (games' = games /\ OnlyErrorTo(s))
              /\ ((\E r \in Roles : ChooseNextRole(s, r))
                  /\ GameOf(s).history # <<>>
                  /\ CallerRole(GameOf(s), s) # LastOf(GameOf(s).history).winner)
                    => (games' = games /\ OnlyErrorTo(s))
      ]_vars


\* The step is one of the eight events that never create a record, sent by
\* the connection s
SessionEvent(s) ==
    \/ ExecuteAttack(s, AttackTool)
    \/ \E c \in BOOLEAN, t \in TimeRemainingIn : ExecuteDefense(s, DefenseTool, c, t)
    \/ TimeExpired(s)
    \/ \E r \in Roles : ChooseNextRole(s, r)
    \/ NextRound(s)
    \/ ResetGame(s)
    \/ ReplayGame(s)
    \/ RequestState(s)

\* C13: an attack, defend, timeout, choose_next_role, next_round, reset,
\* replay or request_state of a connection whose session key has no record
\* in the store leaves the store unchanged, creates no record and emits
\* nothing.
C13_AbsentSessionIgnored ==
    [][\A s \in FinalSockets :
          (Ignored(s) /\ SessionEvent(s))
              => (games' = games /\ out' = <<>>)
      ]_vars


\* C14: a choose_next_role or a next_round on a session whose history is
\* empty leaves the session record unchanged (status, roundNumber,
\* themeRoundCount, playedThemes, slots) and sends one error notification,
\* to the caller only.
C14_NoPriorRoundRejected ==
    [][\A s \in FinalSockets :
          (/\ ~Ignored(s)
           /\ GameOf(s).history = <<>>
           /\ NextRound(s) \/ \E r \in Roles : ChooseNextRole(s, r))
              => (games' = games /\ OnlyErrorTo(s))
      ]_vars


\* C15: a join_game is applied atomically: while it is suspended at its
\* await no other handler or timer callback changes the store, and the
\* record it captured is still the one in the store when it resumes.
C15_JoinAtomic ==
    /\ [](\A s \in DOMAIN pending : ~pending[s].detached)
    /\ [][\A s \in DOMAIN pending :
             JoinGameResume(s) \/ games' = games
         ]_vars


OtherRole(role) == IF role = "attacker" THEN "defender" ELSE "attacker"

\* The slot of a record by the name of its role
SlotOf(game, role) == IF role = "attacker" THEN game.attacker ELSE game.defender

\* C16: a join without a role that presents a userId recorded in exactly
\* one slot of the session puts the caller into that slot, with that
\* userId, and leaves the other slot as it was, whichever slots are marked
\* connected.
C16_RejoinKeepsSlot ==
    [][\A s \in Sockets, sid \in DOMAIN games, role \in Roles :
          (/\ SlotOf(games[sid], role).userId = UserOf(s)
           /\ SlotOf(games[sid], OtherRole(role)).userId # UserOf(s)
           /\ \E t \in ThemeIds \cup {NullTheme} :
                  JoinGame(s, sid, NULL, t, UserOf(s)))
              => /\ SlotOf(games'[sid], role).socketId = s
                 /\ SlotOf(games'[sid], role).userId = UserOf(s)
                 /\ SlotOf(games'[sid], OtherRole(role))
                       = SlotOf(games[sid], OtherRole(role))
      ]_vars


\* The two slots of a record hold two connections of two users
DistinctPlayers(game) ==
    /\ game.attacker.socketId # NULL
    /\ game.defender.socketId # NULL
    /\ game.attacker.socketId # game.defender.socketId
    /\ UserOf(game.attacker.socketId) # UserOf(game.defender.socketId)

\* C17: a start with an explicit role, sent by a connection that occupies
\* one slot of a session whose two slots hold distinct players, leaves the
\* caller in the requested role and the other player in the opposite role,
\* with its connection id, userId and connected flag unchanged.
C17_StartKeepsOtherPlayer ==
    [][\A s \in FinalSockets, a \in Sessions \cup {NULL}, role \in Roles,
          t \in LongThemes :
          LET sid == StartTarget(s, a)
          IN  (/\ Has(games, sid)
               /\ DistinctPlayers(games[sid])
               /\ CallerRole(games[sid], s) # NULL
               /\ StartGame(s, a, role, t, UserOf(s)))
                  => /\ SlotOf(games'[sid], role).socketId = s
                     /\ SlotOf(games'[sid], OtherRole(role))
                           = SlotOf(games[sid], OtherRole(CallerRole(games[sid], s)))
      ]_vars

\* The two players of a round that s1 won as attacker have changed slots,
\* each with its userId, and the round counter is back at 0: a start with
\* an explicit role swapped them (a choose_next_role drops the userIds and
\* counts a round, a join moves one connection and leaves the counter)
C17_Witness ==
    \E sid \in DOMAIN games :
        LET game == games[sid]
        IN  /\ game.history # <<>>
            /\ LastOf(game.history).winner = "attacker"
            /\ LastOf(game.history).winnerSocketId = "s1"
            /\ game.roundNumber = 0
            /\ game.attacker = [socketId |-> "s2", userId |-> "7", connected |-> TRUE]
            /\ game.defender.socketId = "s1"
            /\ game.defender.userId = "ana"


\* C18: an attack of the attacker while the status is THEME_COMPLETED or
\* GAME_FINISHED leaves status, roundNumber and currentRound unchanged; in
\* any other status it records the tool and the start time, clears the
\* defender tool and the end time, sets status ATTACKING and adds exactly 1
\* to roundNumber.
C18_AttackGuard ==
    [][\A s \in FinalSockets :
          (/\ ~Ignored(s)
           /\ GameOf(s).attacker.socketId = s
           /\ ExecuteAttack(s, AttackTool))
              => LET before == GameOf(s)
                     after == games'[sock[s].currentSessionId]
                 IN  IF before.status \in {THEME_COMPLETED, GAME_FINISHED}
                     THEN /\ after.status = before.status
                          /\ after.roundNumber = before.roundNumber
                          /\ after.currentRound = before.currentRound
                     ELSE /\ after.currentRound =
                                [attackerTool |-> AttackTool, defenderTool |-> NULL,
                                 startTime |-> Stamp, endTime |-> NULL]
                          /\ after.status = ATTACKING
                          /\ after.roundNumber = before.roundNumber + 1
      ]_vars


\* C19: a choose_next_role changes the session only when its caller is the
\* connection that won the most recent round of the history; after the
\* winner has swapped the roles by a choose_next_role, a choose_next_role of
\* the loser changes nothing.
C19_OnlyWinnerChooses ==
    [][\A s \in Sockets, role \in Roles :
          (~Ignored(s) /\ ChooseNextRole(s, role) /\ games' # games)
              => /\ GameOf(s).history # <<>>
                 /\ LastOf(GameOf(s).history).winnerSocketId = s
      ]_vars


\* The step is the callback of an idle-deletion timeout
TimerFires == timers # <<>> /\ timers' = Tail(timers)

\* C20: when the idle-deletion timer of a session fires, the record of the
\* session is deleted if both of its slots are disconnected at that moment
\* and the store is left untouched if at least one slot is connected (or
\* the record is gone already).
C20_IdleDeletion ==
    [][TimerFires =>
          LET sid == Head(timers)
          IN  IF Has(games, sid) /\ ~games[sid].attacker.connected
                                 /\ ~games[sid].defender.connected
              THEN games' = Remove(games, sid)
              ELSE games' = games
      ]_vars

\* The timer has fired and deleted the session of a player who left: no
\* record, no pending timer, and a sweep, which is a session-level event,
\* has not run
C20_Witness ==
    /\ games = <<>>
    /\ timers = <<>>
    /\ env.fuel = LongFuel - 2
    /\ \E s \in FinalSockets : ~sock[s].alive /\ sock[s].currentSessionId # NULL

\* A timer is pending on a session that has a connected player again
TimerOnLiveSession ==
    /\ timers # <<>>
    /\ Has(games, Head(timers))
    /\ \/ games[Head(timers)].attacker.connected
       \/ games[Head(timers)].defender.connected


\* The handler of the step broadcast, to the group of the session sid, a
\* game_state whose snapshot is that of the record the step leaves in the
\* store
Broadcast(sid) ==
    \E i \in DOMAIN out' : out'[i] = StateTo(sid, games'[sid])

\* A join_game on the session sid is suspended at its await
JoinSuspended(pend, sid) == \E s \in DOMAIN pend : pend[s].sessionId = sid

\* The step changed the record of sid, or stored one that is not the
\* untouched initial record
RecordChanged(sid) ==
    /\ Has(games', sid)
    /\ IF Has(games, sid) THEN games'[sid] # games[sid]
       ELSE games'[sid] # createInitialState(sid)

\* C21: every event that changes a session record is followed, before the
\* next event of that session is applied, by a game_state broadcast to the
\* group of the session whose snapshot is that of the record then stored:
\* the handler that changed the record broadcasts it, except that a
\* join_game broadcasts when it resumes after its await, and until then no
\* other event changes the record.
C21_BroadcastAfterChange ==
    [][\A sid \in Sessions :
          RecordChanged(sid) =>
              IF JoinSuspended(pending, sid)
              THEN /\ \E s \in DOMAIN pending :
                         pending[s].sessionId = sid /\ JoinGameResume(s)
                   /\ Broadcast(sid)
              ELSE Broadcast(sid) \/ JoinSuspended(pending', sid)
      ]_vars


\* The step is an advance requested by the connection s
AdvanceBy(s) == NextRound(s) \/ \E r \in Roles : ChooseNextRole(s, r)

\* C22: a choose_next_role or a next_round advances the session only when
\* its status is DEFENDED or BREACHED; in any other status it leaves
\* roundNumber, themeRoundCount and status as they were.
C22_AdvanceOnlyAfterResolution ==
    [][\A s \in Sockets :
          (/\ ~Ignored(s)
           /\ GameOf(s).status \notin {DEFENDED, BREACHED}
           /\ AdvanceBy(s))
              => LET before == GameOf(s)
                     after == games'[sock[s].currentSessionId]
                 IN  /\ after.roundNumber = before.roundNumber
                     /\ after.themeRoundCount = before.themeRoundCount
                     /\ after.status = before.status
      ]_vars


\* The history entries of the active theme of a record
RoundsOfActiveTheme(game) ==
    SelectSeq(game.history, LAMBDA r : r.themeId = game.activeThemeId)

\* The theme winner as the specification describes it
HighestThemeScorer(game) ==
    LET best == HighestScorer(RoundsOfActiveTheme(game))
    IN  IF best # NULL THEN best
        ELSE IF game.history = <<>> THEN NULL
        ELSE LastOf(game.history).winnerUserId

\* C23: when an advance sets status to THEME_COMPLETED, themeWinnerUserId is
\* the user with the highest sum of scoreGained over the history entries of
\* the active theme, among equal sums the one met first in history order;
\* when no entry of the theme names a winning user it is the winning user
\* of the last round of the history.
C23_ThemeWinner ==
    [][\A sid \in Kept :
          (AdvanceOf(sid) /\ games'[sid].status = THEME_COMPLETED)
              => games'[sid].themeWinnerUserId = HighestThemeScorer(games'[sid])
      ]_vars


\* The step is a reset, a replay or a disconnect of a connection of sid
ResetOf(sid) ==
    \E s \in Sockets : sock[s].currentSessionId = sid /\ ResetGame(s)
ReplayOf(sid) ==
    \E s \in Sockets : sock[s].currentSessionId = sid /\ ReplayGame(s)
DisconnectOf(sid) ==
    \E s \in Sockets : sock[s].currentSessionId = sid /\ Disconnect(s)

\* C24: attackerScore and defenderScore are non-negative in every record,
\* no event other than a reset decreases either of them, and a join, start,
\* replay, disconnect, choose_next_role or next_round leaves both as they
\* were.
C24_ScoresMonotone ==
    /\ [](\A sid \in DOMAIN games :
             games[sid].attackerScore >= 0 /\ games[sid].defenderScore >= 0)
    /\ [][\A sid \in Kept :
             /\ ~ResetOf(sid)
                   => /\ games'[sid].attackerScore >= games[sid].attackerScore
                      /\ games'[sid].defenderScore >= games[sid].defenderScore
             /\ (\/ JoinOf(sid) \/ StartOf(sid) \/ ReplayOf(sid)
                 \/ DisconnectOf(sid) \/ AdvanceOf(sid))
                   => /\ games'[sid].attackerScore = games[sid].attackerScore
                      /\ games'[sid].defenderScore = games[sid].defenderScore
         ]_vars

\* A wrong defense has been scored and the session advanced after it: the
\* next round is open and both scores are those the round left
C24_Witness ==
    \E sid \in DOMAIN games :
        LET game == games[sid]
        IN  /\ game.history # <<>>
            /\ ~LastOf(game.history).isCorrect
            /\ ~LastOf(game.history).timedOut
            /\ game.status = ATTACKING
            /\ game.currentRound.attackerTool = NULL
            /\ game.attackerScore = BreachAward
            /\ game.defenderScore = 0


\* The first sequence is a prefix of the second
IsPrefix(a, b) == Len(a) <= Len(b) /\ SubSeq(b, 1, Len(a)) = a

\* The step is a defend or a timeout of a connection of sid
ResolutionOf(sid) ==
    \E s \in Sockets :
        /\ sock[s].currentSessionId = sid
        /\ \/ TimeExpired(s)
           \/ \E c \in BOOLEAN, t \in TimeRemainingIn :
                  ExecuteDefense(s, DefenseTool, c, t)

\* C25: across any event other than a reset the history before the event is
\* a prefix of the history after it, and the history grows only by a defend
\* or a timeout accepted in status ATTACKING, by exactly one entry.
C25_HistoryAppendOnly ==
    [][\A sid \in Kept :
          LET before == games[sid]
              after == games'[sid]
          IN  /\ ~ResetOf(sid) => IsPrefix(before.history, after.history)
              /\ (~ResetOf(sid) /\ after.history # before.history)
                    => /\ ResolutionOf(sid)
                       /\ before.status = ATTACKING
                       /\ Len(after.history) = Len(before.history) + 1
      ]_vars

\* A player left after a resolved round and the round is still in the
\* history
C25_Witness ==
    \E sid \in DOMAIN games :
        LET game == games[sid]
        IN  /\ Len(game.history) = 1
            /\ game.status \in {DEFENDED, BREACHED}
            /\ game.attacker.socketId # NULL
            /\ ~game.attacker.connected


\* The sum of scoreGained over a history
TotalGained(h) ==
    LET Sum[n \in 0..Len(h)] ==
            IF n = 0 THEN 0 ELSE Sum[n - 1] + h[n].scoreGained
    IN  Sum[Len(h)]

\* C26: the scoreGained of the round result a resolution appends equals the
\* points the resolution adds to the score of the winning role (200 for a
\* timeout, 150 for a wrong defense), and in every record the sum of
\* scoreGained over the history equals attackerScore + defenderScore.
C26_ScoreGainedIsAward ==
    /\ [](\A sid \in DOMAIN games :
             TotalGained(games[sid].history)
                 = games[sid].attackerScore + games[sid].defenderScore)
    /\ [][\A sid \in Kept :
             LET before == games[sid]
                 after == games'[sid]
                 result == LastOf(after.history)
             IN  Len(after.history) = Len(before.history) + 1
                     => result.scoreGained =
                            IF result.winner = "attacker"
                            THEN after.attackerScore - before.attackerScore
                            ELSE after.defenderScore - before.defenderScore
         ]_vars


\* The (connection id, userId) pairs held by the two slots of a record
Players(game) ==
    {<<game.attacker.socketId, game.attacker.userId>>,
     <<game.defender.socketId, game.defender.userId>>}

\* C27: an accepted choose_next_role leaves the two slots holding the same
\* two (connection id, userId) pairs as before, the caller in the role it
\* chose.
C27_ChooseKeepsIdentity ==
    [][\A s \in Sockets, role \in Roles :
          (~Ignored(s) /\ ChooseNextRole(s, role) /\ games' # games)
              => LET before == GameOf(s)
                     after == games'[sock[s].currentSessionId]
                 IN  /\ Players(after) = Players(before)
                     /\ SlotOf(after, role).socketId = s
      ]_vars


\* C28: a round is resolved only after the attacker has attacked in it:
\* every round result of every history names the attacker's tool.
C28_ResolvedRoundsWereAttacked ==
    \A sid \in DOMAIN games :
        \A i \in DOMAIN games[sid].history :
            games[sid].history[i].attackerTool # NULL


\* The callback of the oldest timer deletes the record of its session
TimerDeletes ==
    /\ TimerFires
    /\ Has(games, Head(timers))
    /\ ~Has(games', Head(timers))

\* C29: idle deletion is debounced. The timers run for the same delay and
\* fire in the order of their scheduling, so a timer of the same session
\* that is still pending when the oldest one fires tells of a disconnect
\* less than the delay ago; and where every timer is scheduled for a record
\* a player has left, a record with two empty slots has been re-created
\* after its timer was scheduled. A timer deletes a record only if no later
\* timer of the session is pending and the record is not such a re-created
\* one.
C29_IdleDeletionDebounced ==
    [][TimerDeletes =>
          LET sid == Head(timers)
          IN  /\ ~Includes(Tail(timers), sid)
              /\ \/ games[sid].attacker.socketId # NULL
                 \/ games[sid].defender.socketId # NULL
      ]_vars


\* The step is a start_game on the session sid, with any of the themes of
\* the catalog's end
StartFinalOf(sid) ==
    \E s \in Sockets, a \in Sessions \cup {NULL}, r \in RoleIn, t \in FinalThemes :
        StartTarget(s, a) = sid /\ StartGame(s, a, r, t, UserOf(s))

\* C30: a session in status GAME_FINISHED leaves that status only by a
\* reset, a replay or a start; a join, attack, defend, timeout,
\* choose_next_role, next_round or disconnect leaves the status as it is.
C30_GameFinishedStays ==
    [][\A sid \in Kept :
          (games[sid].status = GAME_FINISHED /\ games'[sid].status # GAME_FINISHED)
              => ResetOf(sid) \/ ReplayOf(sid) \/ StartFinalOf(sid)
      ]_vars

=============================================================================
